---- MODULE Spec2Model ----
(***************************************************************************)
(* Model of src/server.py: the three MCP tools fetch_wikipedia_page,       *)
(* fetch_next_wikipedia_page and extract_all_wikipedia_links.              *)
(*                                                                         *)
(* Strings are TLA+ strings handled character by character (SubSeq, Len,   *)
(* \o).  A parsed document is a tree of nodes; every node carries the      *)
(* identity `nid` that BeautifulSoup objects have in Python (here: the     *)
(* node's path in the freshly parsed tree), so that the code's "take a     *)
(* snapshot with find_all, then mutate in place" loops are modelled as     *)
(* they run.                                                               *)
(***************************************************************************)
EXTENDS Integers, Sequences, FiniteSets, TLC

VARIABLES web, inv

vars == <<web, inv>>

(***************************************************************************)
(* Python str operations                                                   *)
(***************************************************************************)
quot == "\""
backslash == "\\"

char(s, i) == SubSeq(s, i, i)

startswith(s, p) == Len(s) >= Len(p) /\ SubSeq(s, 1, Len(p)) = p

startswith_any(s, prefixes) == \E p \in prefixes : startswith(s, p)

\* str.find, 1-based: the least index >= from where sub occurs in s; 0 if none
find_from(s, sub, from) ==
    LET hits == {i \in from..(Len(s) - Len(sub) + 1) : SubSeq(s, i, i + Len(sub) - 1) = sub}
    IN IF hits = {} THEN 0 ELSE CHOOSE i \in hits : \A j \in hits : i <= j

\* sub in s
contains(sub, s) == find_from(s, sub, 1) # 0

\* s.split(sep)
RECURSIVE split(_, _)
split(s, sep) ==
    LET i == find_from(s, sep, 1)
    IN IF i = 0 THEN <<s>>
       ELSE <<SubSeq(s, 1, i - 1)>> \o split(SubSeq(s, i + Len(sep), Len(s)), sep)

\* s.split(sep, 1)
split1(s, sep) ==
    LET i == find_from(s, sep, 1)
    IN IF i = 0 THEN <<s>>
       ELSE <<SubSeq(s, 1, i - 1), SubSeq(s, i + Len(sep), Len(s))>>

\* s.replace(old, new) for a one-character old (the string is halved until
\* single characters are left)
RECURSIVE replace(_, _, _)
replace(s, old, new) ==
    IF s = "" THEN ""
    ELSE IF Len(s) = 1 THEN (IF s = old THEN new ELSE s)
    ELSE replace(SubSeq(s, 1, Len(s) \div 2), old, new)
         \o replace(SubSeq(s, (Len(s) \div 2) + 1, Len(s)), old, new)

ascii_uppercase == "ABCDEFGHIJKLMNOPQRSTUVWXYZ"
ascii_lowercase == "abcdefghijklmnopqrstuvwxyz"

uppercase_letters ==
    {"A", "B", "C", "D", "E", "F", "G", "H", "I", "J", "K", "L", "M",
     "N", "O", "P", "Q", "R", "S", "T", "U", "V", "W", "X", "Y", "Z"}

\* s.lower() (ASCII)
RECURSIVE lower(_)
lower(s) ==
    IF s = "" THEN ""
    ELSE IF Len(s) = 1
    THEN IF s \in uppercase_letters
         THEN char(ascii_lowercase, find_from(ascii_uppercase, s, 1)) ELSE s
    ELSE lower(SubSeq(s, 1, Len(s) \div 2)) \o lower(SubSeq(s, (Len(s) \div 2) + 1, Len(s)))

\* the characters chr(32) .. chr(95) and chr(97) .. chr(126)
ascii_low == " !" \o quot \o "#$%&'()*+,-./0123456789:;<=>?@ABCDEFGHIJKLMNOPQRSTUVWXYZ["
             \o backslash \o "]^_"
ascii_high == "abcdefghijklmnopqrstuvwxyz{|}~"
hexdig == "0123456789ABCDEFabcdef"

ishex(c) == find_from(hexdig, c, 1) # 0

hexval(c) == LET k == find_from(hexdig, c, 1) IN IF k <= 16 THEN k - 1 ELSE k - 7

hextobyte(s) == hexval(char(s, 1)) * 16 + hexval(char(s, 2))

decodable(b) == (b >= 32 /\ b <= 95) \/ (b >= 97 /\ b <= 126)

chr(b) == IF b <= 95 THEN char(ascii_low, b - 31) ELSE char(ascii_high, b - 96)

\* the loop of urllib.parse.unquote_to_bytes over the pieces that followed a %
RECURSIVE unquote_items(_)
unquote_items(items) ==
    IF items = <<>> THEN ""
    ELSE LET item == Head(items)
         IN (IF /\ Len(item) >= 2
                /\ ishex(char(item, 1))
                /\ ishex(char(item, 2))
                /\ decodable(hextobyte(item))
             THEN chr(hextobyte(item)) \o SubSeq(item, 3, Len(item))
             ELSE "%" \o item)
            \o unquote_items(Tail(items))

\* urllib.parse.unquote: the string is split at every %; a piece that starts
\* with two hex digits has them replaced by the byte they name, any other
\* piece keeps its %.  The bytes modelled are the printable ASCII ones (the
\* model's hrefs hold no escape outside them).
unquote(s) ==
    LET bits == split(s, "%")
    IN bits[1] \o unquote_items(Tail(bits))

whitespace == {" ", "\t", "\n"}

RECURSIVE lstrip(_)
lstrip(s) ==
    IF s # "" /\ char(s, 1) \in whitespace THEN lstrip(SubSeq(s, 2, Len(s))) ELSE s

RECURSIVE rstrip(_)
rstrip(s) ==
    IF s # "" /\ char(s, Len(s)) \in whitespace
    THEN rstrip(SubSeq(s, 1, Len(s) - 1))
    ELSE s

strip(s) == rstrip(lstrip(s))

digits == "0123456789"

\* str(n) for the three-digit status codes
str_int(n) ==
    char(digits, (n \div 100) + 1) \o char(digits, ((n \div 10) % 10) + 1)
    \o char(digits, (n % 10) + 1)

\* sep.join(parts)
RECURSIVE join(_, _)
join(sep, parts) ==
    IF parts = <<>> THEN ""
    ELSE IF Len(parts) = 1 THEN parts[1]
    ELSE parts[1] \o sep \o join(sep, Tail(parts))

(***************************************************************************)
(* The node tree (bs4.BeautifulSoup, bs4.Tag, bs4.NavigableString)         *)
(*                                                                         *)
(* A node is [tag, attrs, text, kids, nid].  A text node has tag "#text";  *)
(* the document root has tag "[document]".  An attribute is <<>> when      *)
(* absent and <<value>> when present; class holds a list of class names.   *)
(***************************************************************************)
NoAttrs == [id |-> <<>>, class |-> <<>>, style |-> <<>>, href |-> <<>>]

El(tag, attrs, kids) ==
    [tag |-> tag, attrs |-> attrs, text |-> "", kids |-> kids, nid |-> <<>>]

Txt(s) == [tag |-> "#text", attrs |-> NoAttrs, text |-> s, kids |-> <<>>, nid |-> <<>>]

\* Python None for "no such element"
None == [tag |-> "#none", attrs |-> NoAttrs, text |-> "", kids |-> <<>>, nid |-> <<0>>]

is_tag(n) == n.tag # "#text" /\ n.tag # "#none"

\* BeautifulSoup(markup, 'html.parser'): the tree of the markup, every node
\* with its own identity
RECURSIVE label(_, _)
label(n, path) ==
    [n EXCEPT !.nid = path,
              !.kids = [i \in 1..Len(n.kids) |-> label(n.kids[i], Append(path, i))]]

BeautifulSoup(markup) == label(markup, <<>>)

\* tag.get(key, default)
get(n, key, default) == IF n.attrs[key] = <<>> THEN default ELSE n.attrs[key][1]

has_attr(n, key) == n.attrs[key] # <<>>

\* tag.descendants: every node below n, in document order
RECURSIVE descendants(_)
RECURSIVE descendants_of_all(_)
descendants(n) == descendants_of_all(n.kids)
descendants_of_all(ks) ==
    IF ks = <<>> THEN <<>>
    ELSE <<Head(ks)>> \o descendants(Head(ks)) \o descendants_of_all(Tail(ks))

nids_of(nodes) == {nodes[i].nid : i \in 1..Len(nodes)}

\* the node that has identity nid in the tree n, None when it is not in the tree
node_at(n, nid) ==
    LET hits == SelectSeq(descendants(n), LAMBDA d : d.nid = nid)
    IN IF n.nid = nid THEN n ELSE IF hits = <<>> THEN None ELSE hits[1]

in_tree(n, nid) == node_at(n, nid) # None

\* the tree without the node nid (PageElement.extract)
RECURSIVE extract(_, _)
RECURSIVE extract_kids(_, _)
extract(n, nid) == [n EXCEPT !.kids = extract_kids(n.kids, nid)]
extract_kids(ks, nid) ==
    IF ks = <<>> THEN <<>>
    ELSE (IF Head(ks).nid = nid THEN <<>> ELSE <<extract(Head(ks), nid)>>)
         \o extract_kids(Tail(ks), nid)

\* tag.unwrap(): the children of the node nid take its place
RECURSIVE unwrap(_, _)
RECURSIVE unwrap_kids(_, _)
unwrap(n, nid) == [n EXCEPT !.kids = unwrap_kids(n.kids, nid)]
unwrap_kids(ks, nid) ==
    IF ks = <<>> THEN <<>>
    ELSE (IF Head(ks).nid = nid THEN Head(ks).kids ELSE <<unwrap(Head(ks), nid)>>)
         \o unwrap_kids(Tail(ks), nid)

\* tag[key] = value on the node nid
RECURSIVE set_attr(_, _, _, _)
set_attr(n, nid, key, value) ==
    IF n.nid = nid THEN [n EXCEPT !.attrs[key] = <<value>>]
    ELSE [n EXCEPT !.kids = [i \in 1..Len(n.kids) |-> set_attr(n.kids[i], nid, key, value)]]

\* The state of one parsed document while a handler works on it: the tree and
\* the identities of the elements decompose() has destroyed.
\* exc names the exception raised while working, "" when none was.
Working(tree) == [tree |-> tree, dead |-> {}, exc |-> ""]

\* tag.decompose(): the element leaves the tree and it and everything below it
\* is wiped.  Decomposing an element a second time changes nothing.
decompose(st, nid) ==
    IF nid \in st.dead THEN st
    ELSE LET el == node_at(st.tree, nid)
         IN [st EXCEPT !.tree = extract(st.tree, nid),
                       !.dead = st.dead \cup {nid} \cup nids_of(descendants(el))]

RECURSIVE decompose_all(_, _)
decompose_all(st, nids) ==
    IF st.exc # "" \/ nids = <<>> THEN st ELSE decompose_all(decompose(st, Head(nids)), Tail(nids))

nid_list(nodes) == [i \in 1..Len(nodes) |-> nodes[i].nid]

\* entity substitution of the default (minimal) output formatter
RECURSIVE escape(_)
escape(s) ==
    IF s = "" THEN ""
    ELSE IF Len(s) = 1
    THEN (IF s = "&" THEN "&amp;" ELSE IF s = "<" THEN "&lt;"
          ELSE IF s = ">" THEN "&gt;" ELSE s)
    ELSE escape(SubSeq(s, 1, Len(s) \div 2)) \o escape(SubSeq(s, (Len(s) \div 2) + 1, Len(s)))

void_elements == {"br", "hr", "img", "input", "link", "meta"}

attr_text(n, key) ==
    IF ~has_attr(n, key) THEN ""
    ELSE " " \o key \o "=" \o quot
         \o escape(IF key = "class" THEN join(" ", n.attrs[key][1]) ELSE n.attrs[key][1])
         \o quot

\* str(tag): the markup of the element (attributes in the order class, href,
\* id, style)
RECURSIVE str(_)
RECURSIVE str_all(_)
str(n) ==
    IF n.tag = "#text" THEN escape(n.text)
    ELSE IF n.tag = "[document]" THEN str_all(n.kids)
    ELSE LET open == "<" \o n.tag \o attr_text(n, "class") \o attr_text(n, "href")
                     \o attr_text(n, "id") \o attr_text(n, "style")
         IN IF n.tag \in void_elements /\ n.kids = <<>> THEN open \o "/>"
            ELSE open \o ">" \o str_all(n.kids) \o "</" \o n.tag \o ">"
str_all(ks) == IF ks = <<>> THEN "" ELSE str(Head(ks)) \o str_all(Tail(ks))

\* the stripped, non-empty strings below n, in document order
stripped_strings(n) ==
    LET texts == SelectSeq(descendants(n), LAMBDA d : d.tag = "#text" /\ strip(d.text) # "")
    IN [i \in 1..Len(texts) |-> strip(texts[i].text)]

\* tag.get_text(separator, strip=True)
get_text(n, separator) == join(separator, stripped_strings(n))

\* tag.find_all(True, recursive=False): the child elements
child_elements(n) == SelectSeq(n.kids, is_tag)

\* tag.find(...): the first match below n, or None
first_or_None(nodes) == IF nodes = <<>> THEN None ELSE nodes[1]

has_class(n, cls) == \E i \in 1..Len(get(n, "class", <<>>)) : get(n, "class", <<>>)[i] = cls

(***************************************************************************)
(* What the three tools share                                              *)
(***************************************************************************)
base_url == "https://en.wikipedia.org"

formatted_title(page_title) == replace(page_title, " ", "_")

url_of(page_title) == base_url \o "/wiki/" \o formatted_title(page_title)

\* What `await client.get(url)` hands back: a response, or an exception raised
\* in its place.
Response(status_code, reason_phrase, text) ==
    [kind |-> "response", status_code |-> status_code, reason_phrase |-> reason_phrase,
     text |-> text, message |-> ""]

Raised(kind, message) ==
    [kind |-> kind, status_code |-> 0, reason_phrase |-> "", text |-> None,
     message |-> message]

\* response.raise_for_status(): HTTPStatusError for a 4xx or 5xx status
is_error_status(status_code) == status_code >= 400 /\ status_code <= 599

\* How a handler ends: it returns value from its try block, it returns value
\* from the except clause that caught the exception e, or the exception exc
\* leaves it.
Return(value) == [exc |-> "", e |-> "", value |-> value]

Handled(e, value) == [exc |-> "", e |-> e.kind, value |-> value]

Propagate(e) == [exc |-> e.kind, e |-> "", value |-> ""]

\* soup.find('div', id='mw-content-text')
find_content_div(soup) ==
    first_or_None(SelectSeq(descendants(soup),
        LAMBDA d : d.tag = "div" /\ get(d, "id", <<>>) = "mw-content-text"))

\* content_div.find('div', class_='mw-parser-output')
find_parser_output_div(content_div) ==
    first_or_None(SelectSeq(descendants(content_div),
        LAMBDA d : d.tag = "div" /\ has_class(d, "mw-parser-output")))

\* find_all('a', href=True): the anchors below n that have an href
anchors_with_href(n) ==
    SelectSeq(descendants(n), LAMBDA d : d.tag = "a" /\ has_attr(d, "href"))

\* list(set(items)): the distinct items, in an order Python does not fix
RECURSIVE orderings(_)
orderings(S) ==
    IF S = {} THEN {<<>>}
    ELSE UNION {{<<x>> \o rest : rest \in orderings(S \ {x})} : x \in S}

list_set(items) == orderings({items[i] : i \in 1..Len(items)})

\* the httpx.RequestError subclasses the model raises
RequestErrors == {"ConnectError"}

(***************************************************************************)
(* fetch_wikipedia_page                                                    *)
(***************************************************************************)
\* the names handed to find_all at line 44: a name matches a tag name only
non_prose_names ==
    {"table", "div.navbox", "div.thumb", "div.hatnote", "div.reflist", "div.catlinks"}

fwp_excluded_prefixes ==
    {"/wiki/Main_Page", "/wiki/Special:", "/wiki/Help:", "/wiki/Category:",
     "/wiki/Portal:", "/wiki/Template:", "/wiki/Wikipedia:"}

fwp_is_article_link(href) ==
    /\ startswith(href, "/wiki/")
    /\ ~contains(":", href)
    /\ ~startswith_any(href, fwp_excluded_prefixes)

\* the loop of lines 57-62 over the anchors found
RECURSIVE fwp_collect_links(_)
fwp_collect_links(anchors) ==
    IF anchors = <<>> THEN <<>>
    ELSE LET href == Head(anchors).attrs.href[1]
         IN (IF fwp_is_article_link(href) THEN <<base_url \o href>> ELSE <<>>)
            \o fwp_collect_links(Tail(anchors))

\* the dict of lines 64-67; the order of wikipedia_links is any
fwp_success(main_text_content, wikipedia_links) ==
    {[main_text |-> main_text_content, wikipedia_links |-> l] :
        l \in list_set(wikipedia_links)}

\* lines 34-67: the values the try block can return for the parsed page
fetch_wikipedia_page_try(soup) ==
    LET content_div == find_content_div(soup)
        parser_output_div ==
            IF content_div = None THEN None ELSE find_parser_output_div(content_div)
        st == IF parser_output_div = None THEN Working(soup)
              ELSE decompose_all(Working(soup),
                       nid_list(SelectSeq(descendants(parser_output_div),
                                          LAMBDA d : d.tag \in non_prose_names)))
        main_text_content ==
            IF content_div = None THEN "Could not find mw-content-text div."
            ELSE IF parser_output_div = None THEN "Could not find mw-parser-output div."
            ELSE get_text(node_at(st.tree, parser_output_div.nid), backslash \o "n")
        parser_output_div_for_links ==
            IF content_div = None THEN None
            ELSE find_parser_output_div(node_at(st.tree, content_div.nid))
        wikipedia_links ==
            IF parser_output_div_for_links = None THEN <<>>
            ELSE fwp_collect_links(anchors_with_href(parser_output_div_for_links))
    IN fwp_success(main_text_content, wikipedia_links)

fwp_error(message) == [error |-> message, main_text |-> "", wikipedia_links |-> <<>>]

\* the except clauses of lines 69-86 for the exception e
fetch_wikipedia_page_except(page_title, e) ==
    IF e.kind = "HTTPStatusError"
    THEN Handled(e, fwp_error("Error fetching page '" \o page_title \o "': HTTP "
                          \o str_int(e.status_code) \o " - " \o e.reason_phrase))
    ELSE IF e.kind \in RequestErrors
    THEN Handled(e, fwp_error("Error fetching page '" \o page_title \o "': " \o e.message))
    ELSE Handled(e, fwp_error("An unexpected error occurred while fetching page '"
                          \o page_title \o "': " \o e.message))

\* lines 29-86 from the point where client.get(url) has completed with got
fetch_wikipedia_page_resume(page_title, got) ==
    IF got.kind # "response" THEN {fetch_wikipedia_page_except(page_title, got)}
    ELSE IF is_error_status(got.status_code)
    THEN {fetch_wikipedia_page_except(page_title,
            [got EXCEPT !.kind = "HTTPStatusError"])}
    ELSE {Return(v) : v \in fetch_wikipedia_page_try(BeautifulSoup(got.text))}

(***************************************************************************)
(* extract_all_wikipedia_links                                             *)
(***************************************************************************)
\* lines 226-227
main_path_part_of(href) ==
    LET path_segment == split1(href, "/wiki/")[2]
    IN split(split(path_segment, "#")[1], "?")[1]

\* the loop of lines 222-237 with the Main_Page test left out
RECURSIVE eawl_collect_main_page_kept(_, _)
eawl_collect_main_page_kept(anchors, titles_only) ==
    IF anchors = <<>> THEN <<>>
    ELSE LET href == Head(anchors).attrs.href[1]
             main_path_part == main_path_part_of(href)
             keep == startswith(href, "/wiki/") /\ ~contains(":", main_path_part)
             entry == IF titles_only THEN replace(unquote(main_path_part), "_", " ")
                      ELSE base_url \o "/wiki/" \o main_path_part
         IN (IF keep THEN <<entry>> ELSE <<>>)
            \o eawl_collect_main_page_kept(Tail(anchors), titles_only)

\* the loop of lines 222-237 appending an entry only when it is not in the
\* list yet
RECURSIVE eawl_collect_unique(_, _)
eawl_collect_unique(anchors, titles_only) ==
    IF anchors = <<>> THEN <<>>
    ELSE LET before == eawl_collect_unique(SubSeq(anchors, 1, Len(anchors) - 1),
                                           titles_only)
             href == anchors[Len(anchors)].attrs.href[1]
             main_path_part == main_path_part_of(href)
             keep == /\ startswith(href, "/wiki/")
                     /\ ~contains(":", main_path_part)
                     /\ main_path_part # "Main_Page"
             entry == IF titles_only THEN replace(unquote(main_path_part), "_", " ")
                      ELSE base_url \o "/wiki/" \o main_path_part
         IN IF keep /\ \A k \in 1..Len(before) : before[k] # entry
            THEN Append(before, entry) ELSE before

\* the loop of lines 222-237: what the anchors visited append to links
RECURSIVE eawl_collect(_, _)
eawl_collect(anchors, titles_only) ==
    IF anchors = <<>> THEN <<>>
    ELSE LET href == Head(anchors).attrs.href[1]
             main_path_part == main_path_part_of(href)
             link_title == replace(unquote(main_path_part), "_", " ")
             keep == /\ startswith(href, "/wiki/")
                     /\ ~contains(":", main_path_part)
                     /\ main_path_part # "Main_Page"
             entry == IF titles_only THEN link_title
                      ELSE base_url \o "/wiki/" \o main_path_part
         IN (IF keep THEN <<entry>> ELSE <<>>) \o eawl_collect(Tail(anchors), titles_only)

\* lines 220-244
extract_all_wikipedia_links_try(links, soup, titles_only) ==
    links \o eawl_collect(anchors_with_href(soup), titles_only)

\* the except clauses of lines 246-251
extract_all_wikipedia_links_except(page_title, e) ==
    IF e.kind = "HTTPStatusError"
    THEN Handled(e, <<"Error fetching page '" \o page_title \o "': HTTP "
                  \o str_int(e.status_code) \o " - " \o e.reason_phrase>>)
    ELSE IF e.kind \in RequestErrors
    THEN Handled(e, <<"Error fetching page '" \o page_title \o "': " \o e.message>>)
    ELSE Handled(e, <<"An unexpected error occurred while processing page '"
                  \o page_title \o "': " \o e.message>>)

\* lines 216-251 from the point where client.get(url) has completed with got;
\* links is the list made at line 214
extract_all_wikipedia_links_resume(page_title, titles_only, links, got) ==
    IF got.kind # "response" THEN {extract_all_wikipedia_links_except(page_title, got)}
    ELSE IF is_error_status(got.status_code)
    THEN {extract_all_wikipedia_links_except(page_title,
            [got EXCEPT !.kind = "HTTPStatusError"])}
    ELSE {Return(extract_all_wikipedia_links_try(links, BeautifulSoup(got.text),
                                                 titles_only))}

(***************************************************************************)
(* fetch_next_wikipedia_page                                               *)
(***************************************************************************)
\* a CSS selector of lines 121-133: tag, class and id, "" for "any"
Selector(tag, class, id) == [tag |-> tag, class |-> class, id |-> id]

elements_to_remove_selectors ==
    <<Selector("sup", "reference", ""),
      Selector("div", "reflist", ""),
      Selector("div", "catlinks", ""),
      Selector("div", "navbox", ""),
      Selector("div", "thumb", ""),
      Selector("div", "hatnote", ""),
      Selector("", "", "siteSub"),
      Selector("", "", "jump-to-nav"),
      Selector("", "mw-editsection", ""),
      Selector("", "mw-kartographer-maplink", ""),
      Selector("", "", "toc")>>

matches(n, sel) ==
    /\ is_tag(n)
    /\ sel.tag = "" \/ n.tag = sel.tag
    /\ sel.class = "" \/ has_class(n, sel.class)
    /\ sel.id = "" \/ get(n, "id", <<>>) = sel.id

\* tag.select(selector_text)
select(n, sel) == SelectSeq(descendants(n), LAMBDA d : matches(d, sel))

\* lines 134-136: each selector in turn selects in the tree as it is by then
\* and its matches are decomposed
RECURSIVE remove_unwanted(_, _, _)
remove_unwanted(st, root, selectors) ==
    IF st.exc # "" \/ selectors = <<>> THEN st
    ELSE remove_unwanted(
             decompose_all(st, nid_list(select(node_at(st.tree, root), Head(selectors)))),
             root, Tail(selectors))

kept_table_classes == {"infobox", "vcard", "metadata"}

infobox_style_markers == {"float:right", "float:left", "margin:0.5em 0 0.5em 1em"}

\* line 142, negated: some class of the table is in the allow-set
has_kept_class(table) == \E cls \in kept_table_classes : has_class(table, cls)

\* line 146
is_likely_infobox_style(table) ==
    \E style_attr \in infobox_style_markers :
        contains(style_attr, lower(get(table, "style", "")))

\* lines 142-148 without the second check of line 147
table_is_removed_by_style_only(table) ==
    ~has_kept_class(table) /\ ~is_likely_infobox_style(table)

\* lines 142-148: the table is decomposed
table_is_removed(table) ==
    /\ ~has_kept_class(table)
    /\ ~is_likely_infobox_style(table)
    /\ ~contains("infobox", lower(str(table)))

\* What reading a decomposed element does.  bs4 documents the behaviour of a
\* decomposed element as undefined: in the releases that wipe the element's
\* attributes, table.get raises AttributeError; a release that kept them would
\* go on with an element that is in no tree any more.
DeadUse == {"raise", "ignore"}

\* lines 140-148 over the tables found at line 140.  A table below a table
\* that was decomposed earlier in the loop is a decomposed element.
RECURSIVE remove_tables(_, _, _)
remove_tables(st, tables, dead_use) ==
    IF st.exc # "" \/ tables = <<>> THEN st
    ELSE IF Head(tables) \in st.dead
    THEN IF dead_use = "raise" THEN [st EXCEPT !.exc = "AttributeError"]
         ELSE remove_tables(st, Tail(tables), dead_use)
    ELSE remove_tables(
             IF table_is_removed(node_at(st.tree, Head(tables)))
             THEN decompose(st, Head(tables)) ELSE st,
             Tail(tables), dead_use)

allowed_link_prefixes == {"/wiki/File:", "/wiki/Image:"}

fnwp_excluded_prefixes ==
    {"/wiki/Main_Page", "/wiki/Special:", "/wiki/Help:", "/wiki/Category:",
     "/wiki/Portal:", "/wiki/Template:", "/wiki/Wikipedia:", "/wiki/Talk:"}

\* lines 157-164
is_internal_article_link(href) ==
    /\ startswith(href, "/wiki/")
    /\ ~contains(":", split(split(split(href, "/wiki/")[2], "#")[1], "?")[1])
    /\ ~startswith_any(href, fnwp_excluded_prefixes)

\* line 165
is_allowed_file_link(href) == startswith_any(href, allowed_link_prefixes)

\* lines 155-177 with decompose() where the code calls unwrap(); an anchor
\* below a decomposed one is then a decomposed element, and reading its href
\* raises
process_link_decomposing(st, a_tag) ==
    LET href == node_at(st.tree, a_tag).attrs.href[1]
    IN IF a_tag \in st.dead THEN [st EXCEPT !.exc = "TypeError"]
       ELSE IF is_internal_article_link(href)
       THEN [st EXCEPT !.tree = set_attr(st.tree, a_tag, "href",
                                         base_url \o split(href, "#")[1])]
       ELSE IF is_allowed_file_link(href)
       THEN [st EXCEPT !.tree = set_attr(st.tree, a_tag, "href", base_url \o href)]
       ELSE decompose(st, a_tag)

\* lines 155-177 for the anchor a_tag
process_link(st, a_tag) ==
    LET href == node_at(st.tree, a_tag).attrs.href[1]
    IN IF is_internal_article_link(href)
       THEN [st EXCEPT !.tree = set_attr(st.tree, a_tag, "href",
                                         base_url \o split(href, "#")[1])]
       ELSE IF is_allowed_file_link(href)
       THEN [st EXCEPT !.tree = set_attr(st.tree, a_tag, "href", base_url \o href)]
       ELSE [st EXCEPT !.tree = unwrap(st.tree, a_tag)]

\* the loop of lines 154-177 over the anchors found at line 154
RECURSIVE process_links(_, _)
process_links(st, a_tags) ==
    IF st.exc # "" \/ a_tags = <<>> THEN st
    ELSE process_links(process_link(st, Head(a_tags)), Tail(a_tags))

\* line 181
is_empty_p(p_tag) == get_text(p_tag, "") = "" /\ child_elements(p_tag) = <<>>

\* lines 180-182 over the paragraphs found at line 180
RECURSIVE remove_empty_p(_, _)
remove_empty_p(st, p_tags) ==
    IF st.exc # "" \/ p_tags = <<>> THEN st
    ELSE remove_empty_p(
             IF is_empty_p(node_at(st.tree, Head(p_tags)))
             THEN decompose(st, Head(p_tags)) ELSE st,
             Tail(p_tags))

tables_below(n) == nid_list(SelectSeq(descendants(n), LAMBDA d : d.tag = "table"))

paragraphs_below(n) == nid_list(SelectSeq(descendants(n), LAMBDA d : d.tag = "p"))

\* the stages of lines 120-182 on the parser output element root
after_noise(soup, root) == remove_unwanted(Working(soup), root, elements_to_remove_selectors)

after_tables(soup, root, dead_use) ==
    LET st == after_noise(soup, root)
    IN remove_tables(st, tables_below(node_at(st.tree, root)), dead_use)

after_links(soup, root, dead_use) ==
    LET st == after_tables(soup, root, dead_use)
    IN IF st.exc # "" THEN st
       ELSE process_links(st, nid_list(anchors_with_href(node_at(st.tree, root))))

after_pruning(soup, root, dead_use) ==
    LET st == after_links(soup, root, dead_use)
    IN IF st.exc # "" THEN st
       ELSE remove_empty_p(st, paragraphs_below(node_at(st.tree, root)))

\* the except clauses of lines 186-194 without the last one
fetch_next_wikipedia_page_except_no_catch_all(page_title, e) ==
    IF e.kind = "HTTPStatusError"
    THEN Handled(e, "<p>Error fetching page '" \o page_title \o "': HTTP "
                \o str_int(e.status_code) \o " - " \o e.reason_phrase \o "</p>")
    ELSE IF e.kind \in RequestErrors
    THEN Handled(e, "<p>Error fetching page '" \o page_title \o "': " \o e.message \o "</p>")
    ELSE Propagate(e)

\* the except clauses of lines 186-194
fetch_next_wikipedia_page_except(page_title, e) ==
    IF e.kind = "HTTPStatusError"
    THEN Handled(e, "<p>Error fetching page '" \o page_title \o "': HTTP "
                \o str_int(e.status_code) \o " - " \o e.reason_phrase \o "</p>")
    ELSE IF e.kind \in RequestErrors
    THEN Handled(e, "<p>Error fetching page '" \o page_title \o "': " \o e.message \o "</p>")
    ELSE Handled(e, "<p>An unexpected error occurred while processing page '"
                \o page_title \o "'.</p>")

\* lines 110-184: how the try block ends for the parsed page, and the tree it
\* leaves
fetch_next_wikipedia_page_try(page_title, soup, dead_use) ==
    LET content_div == find_content_div(soup)
        parser_output_div ==
            IF content_div = None THEN None ELSE find_parser_output_div(content_div)
        st == after_pruning(soup, parser_output_div.nid, dead_use)
    IN IF content_div = None
       THEN [out |-> Return("Error: Could not find main content div ('mw-content-text')."),
             soup |-> soup]
       ELSE IF parser_output_div = None
       THEN [out |-> Return("Error: Could not find parser output div ('mw-parser-output') within main content."),
             soup |-> soup]
       ELSE IF st.exc # ""
       THEN [out |-> fetch_next_wikipedia_page_except(page_title, Raised(st.exc, "")),
             soup |-> st.tree]
       ELSE [out |-> Return(str(node_at(st.tree, parser_output_div.nid))),
             soup |-> st.tree]

\* lines 106-194 from the point where client.get(url) has completed with got.
\* The run has one outcome unless it reads a decomposed element.
fetch_next_wikipedia_page_resume(page_title, got) ==
    IF got.kind # "response"
    THEN {[out |-> fetch_next_wikipedia_page_except(page_title, got), soup |-> None]}
    ELSE IF is_error_status(got.status_code)
    THEN {[out |-> fetch_next_wikipedia_page_except(page_title,
                       [got EXCEPT !.kind = "HTTPStatusError"]),
           soup |-> None]}
    ELSE LET raising == fetch_next_wikipedia_page_try(page_title,
                            BeautifulSoup(got.text), "raise")
         IN IF raising.out.e # "AttributeError" THEN {raising}
            ELSE {fetch_next_wikipedia_page_try(page_title, BeautifulSoup(got.text), d) :
                     d \in DeadUse}

(***************************************************************************)
(* Pages                                                                   *)
(***************************************************************************)
MaxBody == 2
NProcs == 2

A(href, kids) == El("a", [NoAttrs EXCEPT !.href = <<href>>], kids)

P(kids) == El("p", NoAttrs, kids)

Div(id, classes, kids) ==
    El("div", [NoAttrs EXCEPT !.id = IF id = "" THEN <<>> ELSE <<id>>,
                              !.class = IF classes = <<>> THEN <<>> ELSE <<classes>>],
       kids)

Table(classes, style, kids) ==
    El("table", [NoAttrs EXCEPT !.class = IF classes = <<>> THEN <<>> ELSE <<classes>>,
                                !.style = IF style = "" THEN <<>> ELSE <<style>>],
       kids)

Row(kids) == El("tr", NoAttrs, <<El("td", NoAttrs, kids)>>)

Sup(classes, kids) == El("sup", [NoAttrs EXCEPT !.class = <<classes>>], kids)

\* what surrounds the article on every page: the site navigation
navigation ==
    Div("mw-navigation", <<>>,
        <<A("/wiki/Main_Page", <<Txt("Main page")>>),
          A("/wiki/Special:Random", <<Txt("Random article")>>),
          A("/wiki/Wikipedia", <<Txt("About")>>)>>)

Document(kids) == El("[document]", NoAttrs, kids)

\* a page as Wikipedia serves it, with body as the article
ArticlePage(body) ==
    Document(<<navigation,
               Div("mw-content-text", <<"mw-body-content">>,
                   <<Div("", <<"mw-parser-output">>, body)>>)>>)

\* a page whose content wrapper holds no parser output element
NoParserOutputPage(body) ==
    Document(<<navigation, Div("mw-content-text", <<"mw-body-content">>, body)>>)

\* a page without the content wrapper
NoContentPage(body) == Document(<<navigation, Div("content", <<>>, body)>>)

\* paragraphs and links of an article
LinkBlocks ==
    {P(<<A("/wiki/A", <<Txt("A")>>), Txt(" and "), A("/wiki/B", <<Txt("B")>>)>>),
     P(<<Txt("see "), A("/wiki/A", <<Txt("A again")>>)>>),
     P(<<A("/wiki/A#S", <<Txt("a section of A")>>)>>),
     P(<<A("/wiki/Foo_Bar#Section", <<Txt("Foo Bar")>>),
         A("/wiki/C%2B%2B", <<Txt("C++")>>)>>),
     P(<<A("/wiki/Category:Foo", <<Txt("Foo")>>),
         A("/wiki/Main_Page", <<Txt("Main")>>),
         A("/wiki/Talk:Foo", <<Txt("Talk")>>)>>),
     P(<<Txt("cited"), A("#cite_note-1", <<Txt("[1]")>>),
         A("https://example.org/", <<El("b", NoAttrs, <<Txt("example")>>)>>)>>),
     P(<<A("https://example.org/", <<Txt(" ")>>)>>),
     P(<<A("https://example.org/b", <<El("i", NoAttrs, <<A("/wiki/B", <<Txt("B")>>)>>)>>)>>),
     Div("", <<"thumbinner">>,
         <<A("/wiki/File:X.png", <<El("img", NoAttrs, <<>>)>>)>>)}

\* tables and noise of an article
TableBlocks ==
    {Table(<<"infobox", "vcard">>, "width:22em", <<Row(<<Txt("Born 1900")>>)>>),
     Table(<<"wikitable">>, "", <<Row(<<A("/wiki/A", <<Txt("A")>>)>>)>>),
     Table(<<"wikitable">>, "Float:right; margin:0", <<Row(<<Txt("1")>>)>>),
     Table(<<"infobox_v2">>, "", <<Row(<<Txt("Population")>>)>>),
     Table(<<"wikitable">>, "",
           <<Row(<<Table(<<>>, "float:left", <<Row(<<Txt("inner")>>)>>)>>)>>),
     Div("", <<"navbox">>, <<Table(<<"infobox">>, "", <<Row(<<Txt("nav")>>)>>)>>),
     P(<<Txt("text"), Sup(<<"reference">>, <<A("#cite_note-1", <<Txt("[1]")>>)>>)>>)}

\* the articles of at most n blocks
Bodies(blocks, n) == UNION {[1..k -> blocks] : k \in 0..n}

LinkPages == {ArticlePage(b) : b \in Bodies(LinkBlocks, MaxBody)}

TablePages == {ArticlePage(b) : b \in Bodies(TableBlocks, MaxBody)}

SomeBlocks ==
    {P(<<A("/wiki/A", <<Txt("A")>>)>>),
     Table(<<"wikitable">>, "", <<Row(<<A("/wiki/B", <<Txt("B")>>)>>)>>)}

StructurePages ==
    UNION {{ArticlePage(b), NoParserOutputPage(b), NoContentPage(b)} :
              b \in Bodies(SomeBlocks, MaxBody)}

(***************************************************************************)
(* Requests                                                                *)
(*                                                                         *)
(* web is the site: the markup served at each URL.  inv[i] is the frame of *)
(* the i-th tool invocation: where it stands (pc) and its local variables. *)
(* A handler runs from its call to `await client.get(url)`; the request    *)
(* completes while the task is suspended; the rest of the handler runs     *)
(* without another suspension point.                                       *)
(***************************************************************************)
\* the titles a caller asks for; the site need not have a page for each
Titles == {"Foo Bar", "Python"}

Idle ==
    [pc |-> "idle", op |-> "", page_title |-> "", titles_only |-> TRUE, url |-> "",
     links |-> <<>>, got |-> Raised("", ""), soup |-> None, out |-> Return("")]

\* lines 25-31
Call_fetch_wikipedia_page(i, page_title) ==
    /\ inv[i].pc = "idle"
    /\ inv' = [inv EXCEPT ![i] = [@ EXCEPT !.pc = "await", !.op = "fetch_wikipedia_page",
                                           !.page_title = page_title,
                                           !.url = url_of(page_title)]]
    /\ UNCHANGED web

\* lines 102-108
Call_fetch_next_wikipedia_page(i, page_title) ==
    /\ inv[i].pc = "idle"
    /\ inv' = [inv EXCEPT ![i] = [@ EXCEPT !.pc = "await",
                                           !.op = "fetch_next_wikipedia_page",
                                           !.page_title = page_title,
                                           !.url = url_of(page_title)]]
    /\ UNCHANGED web

\* lines 210-218
Call_extract_all_wikipedia_links(i, page_title, titles_only) ==
    /\ inv[i].pc = "idle"
    /\ inv' = [inv EXCEPT ![i] = [@ EXCEPT !.pc = "await",
                                           !.op = "extract_all_wikipedia_links",
                                           !.page_title = page_title,
                                           !.titles_only = titles_only,
                                           !.url = url_of(page_title),
                                           !.links = <<>>]]
    /\ UNCHANGED web

\* what client.get(url) can complete with
Served(url) ==
    {IF url \in DOMAIN web THEN Response(200, "OK", web[url])
     ELSE Response(404, "Not Found", Document(<<>>)),
     Raised("ConnectError", "All connection attempts failed"),
     Raised("InvalidURL", "Invalid non-printable ASCII character in URL")}

\* client.get(url) completes for the suspended invocation i
Get(i) ==
    /\ inv[i].pc = "await"
    /\ \E got \in Served(inv[i].url) :
           inv' = [inv EXCEPT ![i] = [@ EXCEPT !.pc = "resume", !.got = got]]
    /\ UNCHANGED web

\* one frame shared by all invocations
frame_shared(all, i) == all[1]

\* the frame the resumed handler reads
frame(all, i) == all[i]

Resume_fetch_wikipedia_page(i) ==
    /\ inv[i].pc = "resume"
    /\ inv[i].op = "fetch_wikipedia_page"
    /\ \E out \in fetch_wikipedia_page_resume(frame(inv, i).page_title, frame(inv, i).got) :
           inv' = [inv EXCEPT ![i] = [@ EXCEPT !.pc = "done", !.out = out]]
    /\ UNCHANGED web

Resume_fetch_next_wikipedia_page(i) ==
    /\ inv[i].pc = "resume"
    /\ inv[i].op = "fetch_next_wikipedia_page"
    /\ \E r \in fetch_next_wikipedia_page_resume(frame(inv, i).page_title,
                                                 frame(inv, i).got) :
           inv' = [inv EXCEPT ![i] = [@ EXCEPT !.pc = "done", !.out = r.out,
                                               !.soup = r.soup]]
    /\ UNCHANGED web

Resume_extract_all_wikipedia_links(i) ==
    /\ inv[i].pc = "resume"
    /\ inv[i].op = "extract_all_wikipedia_links"
    /\ \E out \in extract_all_wikipedia_links_resume(frame(inv, i).page_title,
               frame(inv, i).titles_only, frame(inv, i).links, frame(inv, i).got) :
           inv' = [inv EXCEPT ![i] = [@ EXCEPT !.pc = "done", !.out = out]]
    /\ UNCHANGED web

Next ==
    \/ \E i \in DOMAIN inv, t \in Titles : Call_fetch_wikipedia_page(i, t)
    \/ \E i \in DOMAIN inv, t \in Titles : Call_fetch_next_wikipedia_page(i, t)
    \/ \E i \in DOMAIN inv, t \in Titles, b \in BOOLEAN :
           Call_extract_all_wikipedia_links(i, t, b)
    \/ \E i \in DOMAIN inv : Get(i)
    \/ \E i \in DOMAIN inv : Resume_fetch_wikipedia_page(i)
    \/ \E i \in DOMAIN inv : Resume_fetch_next_wikipedia_page(i)
    \/ \E i \in DOMAIN inv : Resume_extract_all_wikipedia_links(i)

OnePage(pages) == {[u \in {url_of("Foo Bar")} |-> pg] : pg \in pages}

\* one request at a time, against a site that serves one article of links
InitLinks == web \in OnePage(LinkPages) /\ inv = [i \in 1..1 |-> Idle]

\* one request at a time, against a site that serves one article of tables
InitTables == web \in OnePage(TablePages) /\ inv = [i \in 1..1 |-> Idle]

\* one request at a time, against a site whose page may lack the content
\* elements
InitStructure == web \in OnePage(StructurePages) /\ inv = [i \in 1..1 |-> Idle]

\* concurrent requests against a site of two pages
Init ==
    /\ web = (url_of("Foo Bar") :> ArticlePage(<<
                  P(<<A("/wiki/A", <<Txt("A")>>), A("/wiki/B#S", <<Txt("B")>>)>>),
                  Table(<<"wikitable">>, "", <<Row(<<A("/wiki/C", <<Txt("C")>>)>>)>>)>>))
             @@ (url_of("Python") :> ArticlePage(<<
                  P(<<A("/wiki/B", <<Txt("B")>>), A("#top", <<Txt("top")>>)>>)>>))
    /\ inv = [i \in 1..NProcs |-> Idle]

Spec == Init /\ [][Next]_vars

SpecLinks == InitLinks /\ [][Next]_vars

SpecTables == InitTables /\ [][Next]_vars

SpecStructure == InitStructure /\ [][Next]_vars

(***************************************************************************)
(* Properties                                                              *)
(***************************************************************************)
FWP == "fetch_wikipedia_page"
FNWP == "fetch_next_wikipedia_page"
EAWL == "extract_all_wikipedia_links"

Done(i, op) == inv[i].pc = "done" /\ inv[i].op = op

\* the request of invocation i was answered with a page
Fetched(i) == inv[i].got.kind = "response" /\ ~is_error_status(inv[i].got.status_code)

\* the page invocation i parsed
page(i) == BeautifulSoup(inv[i].got.text)

\* the parser output element of a parsed page, None when it cannot be located
located(soup) ==
    IF find_content_div(soup) = None THEN None
    ELSE find_parser_output_div(find_content_div(soup))

\* the hrefs of the anchors below n, in document order
hrefs_below(n) ==
    [k \in 1..Len(anchors_with_href(n)) |-> anchors_with_href(n)[k].attrs.href[1]]

\* value is the error variant of the result type of op
IsErrorResult(op, value, page_title) ==
    IF op = FWP
    THEN /\ "error" \in DOMAIN value
         /\ contains(page_title, value.error)
         /\ value.main_text = ""
         /\ value.wikipedia_links = <<>>
    ELSE IF op = FNWP
    THEN /\ startswith(value, "<p>")
         /\ contains("rror", value)
         /\ contains(page_title, value)
    ELSE /\ Len(value) = 1
         /\ contains("rror", value[1])
         /\ contains(page_title, value[1])

\* the request failed, or an exception was raised while the page was worked on
Failed(i) == ~Fetched(i) \/ inv[i].out.e # ""

\* C1: whenever the fetch fails (HTTP status, transport, any other exception)
\* or the transformation raises, each of the three operations returns the
\* error variant of its result type, and no operation ever lets an exception
\* leave it.
C1_FailuresBecomeErrorResults ==
    \A i \in DOMAIN inv :
        inv[i].pc = "done" =>
            /\ inv[i].out.exc = ""
            /\ Failed(i) => IsErrorResult(inv[i].op, inv[i].out.value, inv[i].page_title)

\* a transformation failure that was caught and turned into the error page
C1_Witness ==
    \E i \in DOMAIN inv :
        /\ Done(i, FNWP)
        /\ Fetched(i)
        /\ inv[i].out.e = "AttributeError"
        /\ IsErrorResult(FNWP, inv[i].out.value, inv[i].page_title)

\* the expected element a parsed page lacks, "" when it has both
missing_element(soup) ==
    IF find_content_div(soup) = None THEN "mw-content-text"
    ELSE IF located(soup) = None THEN "mw-parser-output"
    ELSE ""

\* C5: for a page without the parser output element (or without the content
\* wrapper) fetch_wikipedia_page and fetch_next_wikipedia_page return the error
\* variant of their result, with a message that names the missing element.
C5_StructureMismatchIsError ==
    \A i \in DOMAIN inv :
        (inv[i].pc = "done" /\ Fetched(i) /\ missing_element(page(i)) # "") =>
            /\ Done(i, FWP) =>
                  /\ "error" \in DOMAIN inv[i].out.value
                  /\ contains(missing_element(page(i)), inv[i].out.value.error)
                  /\ inv[i].out.value.main_text = ""
                  /\ inv[i].out.value.wikipedia_links = <<>>
            /\ Done(i, FNWP) =>
                  /\ contains("Error", inv[i].out.value)
                  /\ contains(missing_element(page(i)), inv[i].out.value)
                  /\ missing_element(page(i)) = "mw-parser-output"
                        => ~contains("mw-content-text", inv[i].out.value)

\* the title segment of an article-namespace href: what follows /wiki/ up to
\* the first # or ?
title_segment(href) ==
    LET rest == SubSeq(href, Len("/wiki/") + 1, Len(href))
        stops == {k \in 1..Len(rest) : char(rest, k) \in {"#", "?"}}
    IN IF stops = {} THEN rest
       ELSE SubSeq(rest, 1, (CHOOSE k \in stops : \A m \in stops : k <= m) - 1)

\* the href is that of an article: under /wiki/, no namespace colon in the
\* title segment, not the main page
names_article(href) ==
    /\ startswith(href, "/wiki/")
    /\ \A k \in 1..Len(title_segment(href)) : char(title_segment(href), k) # ":"
    /\ title_segment(href) # "Main_Page"

\* the entry an article href stands for in the list of extract_all_wikipedia_links
entry_of(href, titles_only) ==
    IF titles_only THEN replace(unquote(title_segment(href)), "_", " ")
    ELSE base_url \o "/wiki/" \o title_segment(href)

article_of(url) ==
    LET stops == {k \in 1..Len(url) : char(url, k) \in {"#", "?"}}
    IN IF stops = {} THEN url
       ELSE SubSeq(url, 1, (CHOOSE k \in stops : \A m \in stops : k <= m) - 1)

\* C4: the wikipedia_links of fetch_wikipedia_page hold exactly one entry per
\* distinct article referenced, fragment and query stripped: no entry carries
\* a fragment or query and no two entries refer to the same article.
C4_OneEntryPerArticle ==
    \A i \in DOMAIN inv :
        (Done(i, FWP) /\ Fetched(i)) =>
            LET links == inv[i].out.value.wikipedia_links
            IN Len(links) = Cardinality({article_of(links[k]) : k \in 1..Len(links)})

ReservedHrefs == {"/wiki/Category:Foo", "/wiki/Main_Page", "/wiki/Talk:Foo"}

\* the page without its anchors to the reserved hrefs
without_reserved(soup) ==
    decompose_all(Working(soup),
        nid_list(SelectSeq(anchors_with_href(soup),
                           LAMBDA a : a.attrs.href[1] \in ReservedHrefs))).tree

\* the element the returned HTML of a finished fetch_next_wikipedia_page is
\* the markup of
returned_root(i) == located(inv[i].soup)

\* C6: an anchor to /wiki/Category:Foo, /wiki/Main_Page or /wiki/Talk:Foo adds
\* no entry to wikipedia_links, adds no entry to the list of
\* extract_all_wikipedia_links (the list is that of the page without these
\* anchors), and is no anchor of the HTML fetch_next_wikipedia_page returns.
C6_ReservedNeverArticle ==
    \A i \in DOMAIN inv :
        (inv[i].pc = "done" /\ Fetched(i)) =>
            /\ Done(i, FWP) =>
                  \A h \in ReservedHrefs, k \in 1..Len(inv[i].out.value.wikipedia_links) :
                      inv[i].out.value.wikipedia_links[k] # base_url \o h
            /\ Done(i, EAWL) =>
                  inv[i].out.value
                      = extract_all_wikipedia_links_try(<<>>, without_reserved(page(i)),
                                                        inv[i].titles_only)
            /\ (Done(i, FNWP) /\ inv[i].out.e = "" /\ located(page(i)) # None) =>
                  \A k \in 1..Len(anchors_with_href(located(page(i)))) :
                      LET a == anchors_with_href(located(page(i)))[k]
                      IN a.attrs.href[1] \in ReservedHrefs =>
                            /\ ~in_tree(returned_root(i), a.nid)
                            /\ ~contains(a.attrs.href[1] \o quot, inv[i].out.value)

\* a finished extraction of a page whose article links to the three reserved
\* hrefs
C6_Witness ==
    \E i \in DOMAIN inv :
        /\ Done(i, EAWL)
        /\ Fetched(i)
        /\ ReservedHrefs \subseteq {hrefs_below(located(page(i)))[k] :
                                       k \in 1..Len(hrefs_below(located(page(i))))}
        /\ Len(inv[i].out.value) > 1

\* the anchors of the returned HTML, as they stand in it
returned_anchors(i) == anchors_with_href(returned_root(i))

\* the link rewrite step run once more, on the tree that was returned
rewritten_again(i) ==
    process_links(Working(inv[i].soup), nid_list(returned_anchors(i))).tree

\* C2: running the link rewrite step of fetch_next_wikipedia_page on its own
\* output leaves every anchor of that output in place, with the same href.
C2_RewriteIdempotent ==
    \A i \in DOMAIN inv :
        (Done(i, FNWP) /\ Fetched(i) /\ inv[i].out.e = "" /\ located(page(i)) # None) =>
            \A k \in 1..Len(returned_anchors(i)) :
                node_at(rewritten_again(i), returned_anchors(i)[k].nid)
                    = returned_anchors(i)[k]

\* The content element after noise and tables were filtered, before the links
\* are processed, and after the links were processed.
filtered_root(soup) ==
    node_at(after_tables(soup, located(soup).nid, "ignore").tree, located(soup).nid)

linked_root(soup) ==
    node_at(after_links(soup, located(soup).nid, "ignore").tree, located(soup).nid)

\* the href is neither an article link nor a File/Image link: fragment-only or
\* external-or-other
is_unwrapped_kind(href) ==
    ~(names_article(href) /\ ~startswith(href, "/wiki/Talk:"))
    /\ ~startswith(href, "/wiki/File:")
    /\ ~startswith(href, "/wiki/Image:")

\* the position of the node nid among the nodes below n, in document order
\* (0 when it is not there)
index_below(n, nid) ==
    LET hits == {k \in 1..Len(descendants(n)) : descendants(n)[k].nid = nid}
    IN IF hits = {} THEN 0 ELSE CHOOSE k \in hits : TRUE

\* the node kid, a child of the anchor a of the tree before, stands in the
\* tree after where the anchor stood: it is there, and every node of after
\* that is not below the anchor lies on the same side of it as it lay of the
\* anchor
stands_in_place(before, after, a, kid) ==
    /\ in_tree(after, kid.nid)
    /\ \A k \in 1..Len(descendants(after)) :
          LET x == descendants(after)[k].nid
          IN (x \notin nids_of(descendants(a)) /\ in_tree(before, x)) =>
                ((index_below(before, x) < index_below(before, a.nid))
                    <=> (index_below(after, x) < index_below(after, kid.nid)))

\* the subtree holds nothing the later steps work on: no anchor with an href
\* and no paragraph
is_inert(n) ==
    /\ ~(n.tag = "a" /\ has_attr(n, "href")) /\ n.tag # "p"
    /\ \A k \in 1..Len(descendants(n)) :
          LET d == descendants(n)[k]
          IN ~(d.tag = "a" /\ has_attr(d, "href")) /\ d.tag # "p"

in_empty_p(root, nid) ==
    \E k \in 1..Len(descendants(root)) :
        LET p_tag == descendants(root)[k]
        IN /\ p_tag.tag = "p"
           /\ is_empty_p(p_tag)
           /\ nid \in {p_tag.nid} \cup nids_of(descendants(p_tag))

noise_root(soup) ==
    node_at(after_noise(soup, located(soup).nid).tree, located(soup).nid)

tables_of(n) == SelectSeq(descendants(n), LAMBDA d : d.tag = "table")

\* the element nid is in the HTML that invocation i returned
Present(i, nid) ==
    /\ in_tree(returned_root(i), nid)
    /\ contains(str(node_at(returned_root(i), nid)), inv[i].out.value)

\* C7: every table of the located content element that carries the class
\* infobox, whatever its style, is in the HTML fetch_next_wikipedia_page
\* returns.
C7_InfoboxTableKept ==
    \A i \in DOMAIN inv :
        (Done(i, FNWP) /\ Fetched(i) /\ located(page(i)) # None) =>
            \A k \in 1..Len(tables_of(located(page(i)))) :
                LET table == tables_of(located(page(i)))[k]
                IN has_class(table, "infobox") => Present(i, table.nid)

\* the class list holds infobox, vcard or metadata
in_allow_set(table) ==
    \E k \in 1..Len(get(table, "class", <<>>)) :
        get(table, "class", <<>>)[k] \in {"infobox", "vcard", "metadata"}

\* the inline style holds a float:right, float:left or infobox-margin marker
style_marked(table) ==
    \/ contains("float:right", lower(get(table, "style", "")))
    \/ contains("float:left", lower(get(table, "style", "")))
    \/ contains("margin:0.5em 0 0.5em 1em", lower(get(table, "style", "")))

\* the markup of the table holds "infobox", in any case
mentions_infobox(table) == contains("infobox", lower(str(table)))

in_removed_table(root, table) ==
    \E k \in 1..Len(tables_of(root)) :
        LET outer == tables_of(root)[k]
        IN /\ table.nid \in nids_of(descendants(outer))
           /\ ~in_allow_set(outer)
           /\ ~style_marked(outer)
           /\ ~mentions_infobox(outer)

C9_ResultIsOwn ==
    \A i \in DOMAIN inv :
        inv[i].pc = "done" =>
            /\ inv[i].url = url_of(inv[i].page_title)
            /\ inv[i].got \in Served(inv[i].url)
            /\ Done(i, FWP) =>
                  inv[i].out \in fetch_wikipedia_page_resume(inv[i].page_title, inv[i].got)
            /\ Done(i, FNWP) =>
                  [out |-> inv[i].out, soup |-> inv[i].soup]
                      \in fetch_next_wikipedia_page_resume(inv[i].page_title, inv[i].got)
            /\ Done(i, EAWL) =>
                  inv[i].out \in extract_all_wikipedia_links_resume(
                                     inv[i].page_title, inv[i].titles_only, <<>>, inv[i].got)

\* two invocations for different pages have both finished with a page
C9_Witness ==
    \E i, j \in DOMAIN inv :
        /\ Done(i, FNWP) /\ Fetched(i) /\ inv[i].out.e = ""
        /\ Done(j, EAWL) /\ Fetched(j)
        /\ inv[i].page_title # inv[j].page_title
        /\ Len(inv[j].out.value) > 1

====
